---------------------------- MODULE Spec2Model ----------------------------
(***************************************************************************)
(* A model of mlpack's NEAT prototype (neat_impl.hpp, the RankSelection    *)
(* policy) and of Acrobat::Wrap.                                           *)
(*                                                                         *)
(* Spec        NEAT::NEAT, NEAT::Train, NEAT::Reproduce, NEAT::Speciate    *)
(*             as one sequential state machine.  A genome is projected to  *)
(*             its fitness; a species member also remembers the index of   *)
(*             the population slot it was copied from.                     *)
(* SpecSelect  RankSelection::Select, statement by statement;              *)
(*             SpecSelectFair adds fair random draws.                      *)
(* SpecCrossover  NEAT::Crossover, loop iteration by loop iteration.       *)
(* SpecWrap    Acrobat::Wrap.                                              *)
(*                                                                         *)
(* Doubles that the code computes by division are kept as exact fractions  *)
(* [n, d]; the fraction 0/0 is the IEEE NaN that the code's 0.0 / 0.0      *)
(* produces.  Indices are the source's 0-based indices; a TLA+ sequence s  *)
(* holds source element j at s[j + 1].                                     *)
(***************************************************************************)
EXTENDS Integers, Sequences, FiniteSets, TLC

\* Bounds of the model.
MaxPop == 4
MaxSpecies == 3
MaxGen == 1
MaxFit == 1
MaxOOB == 2
\* elitismProp is drawn from {0/ElitismDen, ..., ElitismDen/ElitismDen}.
ElitismDen == 2

\* The range of the C++ int that holds delta (part_000:132).
IntMax == 2147483647
IntMin == -IntMax - 1

VARIABLES
  pc,               \* position in NEAT(), Train(), Reproduce(), Speciate()
  fault,            \* why the run ended abnormally ("" while it has not)
  inputNodeCount, outputNodeCount, popSize, maxGen, numSpecies, elitismProp,
  gen,              \* Train's loop counter
  init,             \* the argument of the pending Speciate call
  genomeList,       \* the population: a sequence of fitness values
  speciesList,      \* species index -> sequence of [fit, idx] members
  meanFitnesses, speciesSize, numElite,   \* Reproduce's three vectors
  delta,            \* Reproduce's int delta
  i,                \* Reproduce's loop index (reconciliation, species loop)
  currentSize,      \* Reproduce's currentSize
  selection,        \* what Select wrote for the last child
  parents,          \* the member indices Crossover was called with
  maxIdx,           \* Train's maxIdx (-1: size_t(-1))
  \* RankSelection::Select
  selPc,            \* position in Select
  fitnesses,        \* Select's argument
  sel,              \* Select's selection: sel[0], sel[1]
  pos,              \* Select's pos
  \* NEAT::Crossover
  xoPc,             \* position in Crossover
  isAcyclic, disableProb,
  gen1, gen2,       \* the parents: [fit, nodeCount, connectionGeneList]
  base,             \* fitter-parent branch: the parent copied (1 or 2);
                    \* lessFitGenome is the other one
  newConnGeneList, nextNodeID,
  xi, xj, xk,       \* Crossover's i, j and k
  child,            \* the genome Crossover returns
  \* Acrobat::Wrap
  wrapPc,           \* position in Wrap
  value, minimum, maximum   \* Wrap's arguments; value holds the result

config == <<inputNodeCount, outputNodeCount, popSize, maxGen, numSpecies,
            elitismProp>>
reproduceVars == <<meanFitnesses, speciesSize, numElite, delta, i,
                   currentSize, selection, parents>>
trainVars == <<pc, fault, config, gen, init, genomeList, speciesList,
               reproduceVars, maxIdx>>
selectVars == <<selPc, fitnesses, sel, pos>>
wrapVars == <<wrapPc, value, minimum, maximum>>
crossArgs == <<isAcyclic, disableProb, gen1, gen2>>
crossVars == <<xoPc, crossArgs, base, newConnGeneList, nextNodeID, xi, xj,
               xk, child>>
vars == <<trainVars, selectVars, crossVars, wrapVars>>
notTrain == <<selectVars, crossVars, wrapVars>>
notSelect == <<trainVars, crossVars, wrapVars>>
notCross == <<trainVars, selectVars, wrapVars>>
notWrap == <<trainVars, selectVars, crossVars>>

Fits == 0..MaxFit

---------------------------------------------------------------------------
\* Doubles.

NaN == [n |-> 0, d |-> 0]
Num(v) == [n |-> v, d |-> 1]
IsNaN(x) == x.d = 0

\* std::round(a / b) for b > 0: halves round away from zero.
Round(a, b) ==
  IF a >= 0 THEN (2 * a + b) \div (2 * b)
  ELSE -((2 * (-a) + b) \div (2 * b))

\* k < x in C++ for an integral k and a double x: false when x is NaN.
Less(k, x) == ~IsNaN(x) /\ k * x.d < x.n

Species == 0..(numSpecies - 1)

RECURSIVE SumFit(_)
SumFit(members) ==
  IF members = <<>> THEN 0
  ELSE members[1].fit + SumFit(Tail(members))

\* meanFitnesses[i] after the loop of lines 119-124: sum / size().
Mean(members) == [n |-> SumFit(members), d |-> Len(members)]

RECURSIVE ProdD(_, _)
ProdD(mf, k) == IF k = 0 THEN 1 ELSE mf[k - 1].d * ProdD(mf, k - 1)

RECURSIVE SumScaled(_, _, _)
SumScaled(mf, k, dd) ==
  IF k = 0 THEN 0
  ELSE mf[k - 1].n * (dd \div mf[k - 1].d) + SumScaled(mf, k - 1, dd)

\* arma::accu(meanFitnesses), line 125.
Accu(mf) ==
  IF \E s \in DOMAIN mf : IsNaN(mf[s]) THEN NaN
  ELSE [n |-> SumScaled(mf, numSpecies, ProdD(mf, numSpecies)),
        d |-> ProdD(mf, numSpecies)]

\* std::round(meanFitnesses[i] / totalMeanFitness * popSize), line 129.
Allot(m, total) ==
  IF IsNaN(m) \/ IsNaN(total) \/ total.n = 0 THEN NaN
  ELSE Num(Round(m.n * total.d * popSize, m.d * total.n))

RECURSIVE SumN(_, _)
SumN(v, k) == IF k = 0 THEN 0 ELSE v[k - 1].n + SumN(v, k - 1)

\* accu(speciesSize), line 132.
AccuSize(v) ==
  IF \E s \in DOMAIN v : IsNaN(v[s]) THEN NaN ELSE Num(SumN(v, numSpecies))

\* numElite[i], lines 156-159.
EliteCount(size) ==
  IF IsNaN(size) THEN NaN
  ELSE LET r == Round(elitismProp * size.n, ElitismDen)
       IN  Num(IF r = 0 THEN 1 ELSE r)

Min(a, b) == IF a < b THEN a ELSE b

RECURSIVE FitsOf(_)
FitsOf(members) ==
  IF members = <<>> THEN <<>>
  ELSE <<members[1].fit>> \o FitsOf(Tail(members))

---------------------------------------------------------------------------
\* RankSelection::Select, summarised for Reproduce.

\* prob of lines 417 and 429: size_t arithmetic, so the division truncates.
Prob(size, p) == ((size - p) * 2) \div (size * (size + 1))

\* The positions a selection loop can stop at: randu() < prob can be true
\* only when prob > 0, and can be false only when prob < 1.
AcceptPositions(size) ==
  {p \in 0..(size - 1) :
     Prob(size, p) > 0 /\ \A q \in 0..(p - 1) : Prob(size, q) < 1}

\* The pairs Select can return; empty when it never returns.
SelectResults(size) == AcceptPositions(size) \X AcceptPositions(size)

---------------------------------------------------------------------------
\* NEAT::NEAT and NEAT::Train.

\* The variables of an operation that a specification does not run.
IdleTrain ==
  /\ pc = "idle"
  /\ fault = ""
  /\ inputNodeCount = 0
  /\ outputNodeCount = 0
  /\ popSize = 0
  /\ maxGen = 0
  /\ numSpecies = 0
  /\ elitismProp = 0
  /\ gen = 0
  /\ init = TRUE
  /\ genomeList = <<>>
  /\ speciesList = <<>>
  /\ meanFitnesses = <<>>
  /\ speciesSize = <<>>
  /\ numElite = <<>>
  /\ delta = 0
  /\ i = 0
  /\ currentSize = 0
  /\ selection = <<>>
  /\ parents = <<>>
  /\ maxIdx = -1

IdleSelect ==
  /\ selPc = "idle"
  /\ fitnesses = <<>>
  /\ sel = <<>>
  /\ pos = 0

NoGenome == [fit |-> 0, nodeCount |-> 0, connectionGeneList |-> <<>>]

IdleCross ==
  /\ xoPc = "idle"
  /\ isAcyclic = FALSE
  /\ disableProb = "zero"
  /\ gen1 = NoGenome
  /\ gen2 = NoGenome
  /\ base = 0
  /\ newConnGeneList = <<>>
  /\ nextNodeID = 0
  /\ xi = 0
  /\ xj = 0
  /\ xk = 0
  /\ child = NoGenome

IdleWrap ==
  /\ wrapPc = "idle"
  /\ value = 0
  /\ minimum = 0
  /\ maximum = 0

\* The arguments of the constructor, before it runs.
Init ==
  /\ IdleSelect
  /\ IdleCross
  /\ IdleWrap
  /\ pc = "new"
  /\ fault = ""
  /\ inputNodeCount \in 0..1
  /\ outputNodeCount \in 0..1
  /\ popSize \in 0..MaxPop
  /\ maxGen \in 0..MaxGen
  /\ numSpecies \in 0..MaxSpecies
  /\ elitismProp \in 0..ElitismDen
  /\ gen = 0
  /\ init = TRUE
  /\ genomeList = <<>>
  /\ speciesList = <<>>
  /\ meanFitnesses = <<>>
  /\ speciesSize = <<>>
  /\ numElite = <<>>
  /\ delta = 0
  /\ i = 0
  /\ currentSize = 0
  /\ selection = <<>>
  /\ parents = <<>>
  /\ maxIdx = -1

\* The constructor stores its arguments and does nothing else.
Construct ==
  /\ pc = "new"
  /\ pc' = "constructed"
  /\ UNCHANGED <<fault, config, gen, init, genomeList, speciesList,
                 reproduceVars, maxIdx>>
  /\ UNCHANGED notTrain

\* Genome's constructor is not part of the sources: it fails for zero input
\* or output nodes, and leaves the fitness undefined.
GenomeCtorFails == inputNodeCount = 0 \/ outputNodeCount = 0

\* Train, lines 67-78, up to the call of Speciate(true).
TrainInit ==
  /\ pc = "constructed"
  /\ \/ /\ popSize > 0 /\ GenomeCtorFails
        /\ pc' = "failed"
        /\ fault' = "Genome: zero input or output nodes"
        /\ UNCHANGED <<genomeList, speciesList>>
     \/ /\ popSize = 0 \/ ~GenomeCtorFails
        /\ genomeList' \in [1..popSize -> Fits]
        /\ speciesList' = [s \in Species |-> <<>>]
        /\ pc' = "speciate"
        /\ UNCHANGED fault
  /\ init' = TRUE
  /\ gen' = 0
  /\ UNCHANGED <<config, reproduceVars, maxIdx>>
  /\ UNCHANGED notTrain

\* What reading genomeList[0 .. popSize) yields: the elements that exist,
\* and anything at all past the end of the vector.
ReadPop ==
  {p \in [1..popSize -> Fits] :
     \A k \in 1..Min(popSize, Len(genomeList)) : p[k] = genomeList[k]}

\* KMeans::Cluster is not part of the sources: it gives every column of
\* data (there are popSize) a species index in [0, numSpecies).
Cluster == [0..(popSize - 1) -> Species]

RECURSIVE Assign(_, _, _, _)
\* Lines 215-216: speciesList[assignments[k]].push_back(genomeList[k]).
Assign(sl, assignments, pop, k) ==
  IF k = popSize THEN sl
  ELSE Assign([sl EXCEPT ![assignments[k]] =
                 Append(@, [fit |-> pop[k + 1], idx |-> k])],
              assignments, pop, k + 1)

\* Speciate, lines 189-217.
Speciate ==
  /\ pc = "speciate"
  /\ \/ \* data(innovID, i) with i >= popSize: Armadillo's bounds check.
        /\ Len(genomeList) > popSize
        /\ pc' = "failed"
        /\ fault' = "Speciate: data(innovID, i) out of bounds"
        /\ UNCHANGED speciesList
     \/ \* No species index exists for a genome.
        /\ Len(genomeList) <= popSize
        /\ Cluster = {}
        /\ pc' = "failed"
        /\ fault' = "Speciate: Cluster"
        /\ UNCHANGED speciesList
     \/ \* genomeList[i] past the end of the vector.
        /\ Len(genomeList) < popSize
        /\ Cluster # {}
        /\ pc' = "crashed"
        /\ fault' = "Speciate: genomeList[i] out of bounds"
        /\ UNCHANGED speciesList
     \/ \* The call returns (without the bounds check when the population
        \* is too long, with what the read found when it is too short).
        /\ \E assignments \in Cluster, pop \in ReadPop :
             speciesList' =
               Assign([s \in Species |-> <<>>], assignments, pop, 0)
        /\ pc' = "loop"
        /\ UNCHANGED fault
  /\ gen' = IF init THEN gen ELSE gen + 1
  /\ UNCHANGED <<config, init, genomeList, reproduceVars, maxIdx>>
  /\ UNCHANGED notTrain

\* The test of the main loop, line 81.
Loop ==
  /\ pc = "loop"
  /\ pc' = IF gen < maxGen THEN "evaluate" ELSE "best"
  /\ UNCHANGED <<fault, config, gen, init, genomeList, speciesList,
                 reproduceVars, maxIdx>>
  /\ UNCHANGED notTrain

\* Lines 83-85: every genomeList[i], i < popSize, gets the task's fitness.
Evaluate ==
  /\ pc = "evaluate"
  /\ \/ /\ Len(genomeList) < popSize
        /\ pc' = "crashed"
        /\ fault' = "Train: genomeList[i] out of bounds"
        /\ UNCHANGED genomeList
     \/ /\ \E f \in [1..Min(popSize, Len(genomeList)) -> Fits] :
             genomeList' =
               [k \in 1..Len(genomeList) |->
                  IF k <= popSize THEN f[k] ELSE genomeList[k]]
        /\ pc' = "reproduce"
        /\ UNCHANGED fault
  /\ UNCHANGED <<config, gen, init, speciesList, reproduceVars, maxIdx>>
  /\ UNCHANGED notTrain

---------------------------------------------------------------------------
\* NEAT::Reproduce.

\* x + k in doubles.
Plus(x, k) == IF IsNaN(x) THEN NaN ELSE Num(x.n + k)

\* int delta = popSize - accu(speciesSize), line 132.  Converting NaN to int
\* is undefined: the conversion instruction gives INT_MIN on x86 and 0 on
\* AArch64.
DeltaOf(sizes) ==
  IF IsNaN(AccuSize(sizes)) THEN {IntMin, 0}
  ELSE {popSize - AccuSize(sizes).n}

\* Lines 112-132: the mean fitnesses, the rounded allotments and delta.
Allotment ==
  /\ pc = "reproduce"
  /\ LET mf == [s \in Species |-> Mean(speciesList[s])]
         sizes == [s \in Species |-> Allot(mf[s], Accu(mf))]
     IN  /\ meanFitnesses' = mf
         /\ speciesSize' = sizes
         /\ delta' \in DeltaOf(sizes)
  /\ numElite' = [s \in Species |-> Num(0)]
  /\ pc' = "reconcile"
  /\ UNCHANGED <<fault, config, gen, init, genomeList, speciesList, i,
                 currentSize, selection, parents, maxIdx>>
  /\ UNCHANGED notTrain

\* The if / else if of lines 133 and 143.
Reconcile ==
  /\ pc = "reconcile"
  /\ pc' = IF delta > 0 THEN "deficit"
           ELSE IF delta < 0 THEN "surplus" ELSE "elite"
  /\ i' = 0
  /\ UNCHANGED <<fault, config, gen, init, genomeList, speciesList,
                 meanFitnesses, speciesSize, numElite, delta, currentSize,
                 selection, parents, maxIdx>>
  /\ UNCHANGED notTrain

\* One test and one iteration of the loop of lines 136-140.
DeficitStep ==
  /\ pc = "deficit"
  /\ IF delta > 0
     THEN IF i < numSpecies
          THEN /\ speciesSize' = [speciesSize EXCEPT ![i] = Plus(@, 1)]
               /\ i' = i + 1
               /\ delta' = delta - 1
               /\ UNCHANGED <<pc, fault>>
          ELSE /\ pc' = "crashed"
               /\ fault' = "Reproduce: speciesSize[i] out of bounds"
               /\ UNCHANGED <<speciesSize, i, delta>>
     ELSE /\ pc' = "elite"
          /\ UNCHANGED <<fault, speciesSize, i, delta>>
  /\ UNCHANGED <<config, gen, init, genomeList, speciesList, meanFitnesses,
                 numElite, currentSize, selection, parents, maxIdx>>
  /\ UNCHANGED notTrain

\* delta-- of line 149.  At INT_MIN the decrement overflows, which is
\* undefined: the value wraps to INT_MAX, or the test delta < 0 stays true
\* (a build that assumes no overflow).
Decrement(d) == IF d = IntMin THEN {IntMax, IntMin} ELSE {d - 1}

\* One test and one iteration of the loop of lines 146-150.
SurplusStep ==
  /\ pc = "surplus"
  /\ \/ /\ delta < 0
        /\ i < numSpecies
        /\ speciesSize' = [speciesSize EXCEPT ![i] = Plus(@, -1)]
        /\ i' = i + 1
        /\ delta' \in Decrement(delta)
        /\ UNCHANGED <<pc, fault>>
     \/ \* speciesSize[i] past the end of the vector: the write lands in
        \* other memory and the loop goes on ...
        /\ delta < 0
        /\ i >= numSpecies
        /\ i < numSpecies + MaxOOB
        /\ i' = i + 1
        /\ delta' \in Decrement(delta)
        /\ UNCHANGED <<pc, fault, speciesSize>>
     \/ \* ... or the write faults.
        /\ delta < 0
        /\ i >= numSpecies
        /\ pc' = "crashed"
        /\ fault' = "Reproduce: speciesSize[i] out of bounds"
        /\ UNCHANGED <<speciesSize, i, delta>>
     \/ /\ delta >= 0
        /\ pc' = "elite"
        /\ UNCHANGED <<fault, speciesSize, i, delta>>
  /\ UNCHANGED <<config, gen, init, genomeList, speciesList, meanFitnesses,
                 numElite, currentSize, selection, parents, maxIdx>>
  /\ UNCHANGED notTrain

\* Lines 153-163: the elite counts, then genomeList.clear().
Elite ==
  /\ pc = "elite"
  /\ numElite' = [s \in Species |-> EliteCount(speciesSize[s])]
  /\ genomeList' = <<>>
  /\ i' = 0
  /\ pc' = "species"
  /\ UNCHANGED <<fault, config, gen, init, speciesList, meanFitnesses,
                 speciesSize, delta, currentSize, selection, parents,
                 maxIdx>>
  /\ UNCHANGED notTrain

\* std::sort(speciesList[i].begin(), speciesList[i].begin(), compareGenome),
\* line 167: the range [begin, begin) is empty.
Sorted(members) == members

\* How many elites line 169's loop copies: j < numElite[i] is false for NaN.
EliteCopies(ne) == IF IsNaN(ne) THEN 0 ELSE ne.n

\* Lines 164-172 for species i, or the return of Reproduce when i has
\* reached numSpecies.
SpeciesStep ==
  /\ pc = "species"
  /\ IF i < numSpecies
     THEN LET members == Sorted(speciesList[i])
              k == EliteCopies(numElite[i])
              have == Min(k, Len(members))
          IN  /\ speciesList' = [speciesList EXCEPT ![i] = members]
              /\ currentSize' = Len(genomeList)
              /\ \/ \* speciesList[i][j] with j past the end reads other
                    \* memory: whatever is there is copied ...
                    /\ \E g \in [1..(k - have) -> Fits] :
                         genomeList' =
                           genomeList \o FitsOf(SubSeq(members, 1, have))
                                      \o g
                    /\ pc' = "fill"
                    /\ UNCHANGED fault
                 \/ \* ... or the read faults.
                    /\ k > have
                    /\ pc' = "crashed"
                    /\ fault' = "Reproduce: speciesList[i][j] out of bounds"
                    /\ UNCHANGED genomeList
              /\ UNCHANGED init
              /\ UNCHANGED <<meanFitnesses, speciesSize, numElite, delta, i,
                             selection, parents>>
     ELSE \* Reproduce returns and its locals go out of scope; line 87.
          /\ pc' = "speciate"
          /\ init' = FALSE
          /\ meanFitnesses' = <<>>
          /\ speciesSize' = <<>>
          /\ numElite' = <<>>
          /\ delta' = 0
          /\ i' = 0
          /\ currentSize' = 0
          /\ selection' = <<>>
          /\ parents' = <<>>
          /\ UNCHANGED <<fault, genomeList, speciesList>>
  /\ UNCHANGED <<config, gen, maxIdx>>
  /\ UNCHANGED notTrain

\* One test and one iteration of the loop of lines 173-181.
Fill ==
  /\ pc = "fill"
  /\ LET size == Len(speciesList[i])
     IN  \/ /\ ~Less(Len(genomeList) - currentSize, speciesSize[i])
            /\ i' = i + 1
            /\ pc' = "species"
            /\ UNCHANGED <<fault, genomeList, selection, parents>>
         \/ \* Select never returns.
            /\ Less(Len(genomeList) - currentSize, speciesSize[i])
            /\ SelectResults(size) = {}
            /\ pc' = "hung"
            /\ fault' = "Select does not return"
            /\ UNCHANGED <<genomeList, i, selection, parents>>
         \/ \* Crossover(speciesList[i][selection[0]],
            \* speciesList[i][selection[2]]): selection has two elements, so
            \* selection[2] is an element nobody wrote; second = size stands
            \* for every index past the end.  The child's fitness is
            \* undefined until it is evaluated.
            /\ Less(Len(genomeList) - currentSize, speciesSize[i])
            /\ \E picked \in SelectResults(size), second \in 0..size,
                  f \in Fits :
                 /\ selection' = picked
                 /\ parents' = <<picked[1], second>>
                 /\ genomeList' = Append(genomeList, f)
            /\ UNCHANGED <<pc, fault, i>>
         \/ \* The second parent lies outside the process's memory.
            /\ Less(Len(genomeList) - currentSize, speciesSize[i])
            /\ SelectResults(size) # {}
            /\ pc' = "crashed"
            /\ fault' = "Reproduce: speciesList[i][selection[2]]"
            /\ UNCHANGED <<genomeList, i, selection, parents>>
  /\ UNCHANGED <<config, gen, init, speciesList, meanFitnesses, speciesSize,
                 numElite, delta, currentSize, maxIdx>>
  /\ UNCHANGED notTrain

\* The index lines 91-100 leave in maxIdx for the fitnesses pop[1..popSize]:
\* the first one that holds the maximum (every fitness exceeds -DBL_MAX), and
\* size_t(-1) when the loop body never runs.
ArgMax(pop) ==
  IF popSize = 0 THEN -1
  ELSE CHOOSE k \in 0..(popSize - 1) :
         /\ \A m \in 0..(popSize - 1) : pop[m + 1] <= pop[k + 1]
         /\ \A m \in 0..(k - 1) : pop[m + 1] < pop[k + 1]

\* Train, lines 90-102.
Best ==
  /\ pc = "best"
  /\ \/ \* genomeList[i] or genomeList[maxIdx] past the end of the vector
        \* either faults ...
        /\ Len(genomeList) < popSize \/ popSize = 0
        /\ pc' = "crashed"
        /\ fault' = "Train: genomeList[i] out of bounds"
        /\ UNCHANGED maxIdx
     \/ \* ... or yields what the memory holds.
        /\ \E pop \in ReadPop : maxIdx' = ArgMax(pop)
        /\ pc' = "done"
        /\ UNCHANGED fault
  /\ UNCHANGED <<config, gen, init, genomeList, speciesList, reproduceVars>>
  /\ UNCHANGED notTrain

Next ==
  \/ Construct
  \/ TrainInit
  \/ Speciate
  \/ Loop
  \/ Evaluate
  \/ Allotment
  \/ Reconcile
  \/ DeficitStep
  \/ SurplusStep
  \/ Elite
  \/ SpeciesStep
  \/ Fill
  \/ Best

Spec == Init /\ [][Next]_vars

---------------------------------------------------------------------------
\* RankSelection::Select, statement by statement (SpecSelect).

MaxElem == 6

RECURSIVE Ascending(_)
Ascending(fs) ==
  Len(fs) <= 1 \/ (fs[1] <= fs[2] /\ Ascending(Tail(fs)))

\* The fitness vectors Select is called with: sorted, ascending.
FitnessVectors ==
  UNION {{fs \in [1..n -> Fits] : Ascending(fs)} : n \in 1..MaxElem}

SelectInit ==
  /\ IdleTrain
  /\ IdleCross
  /\ IdleWrap
  /\ selPc = "entry"
  /\ fitnesses \in FitnessVectors
  /\ sel = <<>>
  /\ pos = 0

n_elem == Len(fitnesses)

\* Lines 409-411.
SelectEntry ==
  /\ selPc = "entry"
  /\ sel' = [k \in 0..1 |-> n_elem]
  /\ pos' = 0
  /\ selPc' = "first"
  /\ UNCHANGED fitnesses
  /\ UNCHANGED notSelect

\* pos after the wrap-around of lines 415-416 and 427-428.
Wrapped(p) == IF p >= n_elem THEN 0 ELSE p

\* One iteration of a selection loop for slot k: randu() < prob is true
\* (the slot is written) or false; then pos++.
Draw(k) ==
  LET p == Wrapped(pos)
  IN  /\ \/ /\ Prob(n_elem, p) > 0
            /\ sel' = [sel EXCEPT ![k] = p]
         \/ /\ Prob(n_elem, p) < 1
            /\ UNCHANGED sel
      /\ pos' = p + 1

\* The test and one iteration of the loop of lines 413-421; lines 423-424
\* when the loop ends.
FirstLoop ==
  /\ selPc = "first"
  /\ IF sel[0] = n_elem
     THEN /\ Draw(0)
          /\ UNCHANGED selPc
     ELSE /\ pos' = 0
          /\ selPc' = "second"
          /\ UNCHANGED sel
  /\ UNCHANGED fitnesses
  /\ UNCHANGED notSelect

\* The test and one iteration of the loop of lines 425-433; the return when
\* the loop ends.
SecondLoop ==
  /\ selPc = "second"
  /\ IF sel[1] = n_elem /\ sel[0] # sel[1]
     THEN /\ Draw(1)
          /\ UNCHANGED selPc
     ELSE /\ selPc' = "returned"
          /\ UNCHANGED <<sel, pos>>
  /\ UNCHANGED fitnesses
  /\ UNCHANGED notSelect

SelectNext ==
  \/ SelectEntry
  \/ FirstLoop
  \/ SecondLoop

SpecSelect == SelectInit /\ [][SelectNext]_vars

\* Select keeps running until it returns, and its random draws are fair: a
\* loop that can accept a position again and again does accept one.
SpecSelectFair ==
  /\ SpecSelect
  /\ WF_vars(SelectNext)
  /\ SF_vars(FirstLoop /\ sel' # sel)
  /\ SF_vars(SecondLoop /\ sel' # sel)

---------------------------------------------------------------------------
\* NEAT::Crossover, loop iteration by loop iteration (SpecCrossover).

MaxInnov == 3

\* The connection that innovation ID v stands for: from the input node 0 to
\* the output node 1 first, then to the hidden nodes 2, 3, ...
Source(v) == 0
Target(v) == v

Gene(v, weight, enabled) ==
  [innov |-> v, source |-> Source(v), target |-> Target(v),
   weight |-> weight, enabled |-> enabled]

RECURSIVE InnovSorted(_)
InnovSorted(genes) ==
  Len(genes) <= 1
    \/ (genes[1].innov < genes[2].innov /\ InnovSorted(Tail(genes)))

\* The gene lists of a parent: ascending unique innovation IDs; the weight
\* tells the parents' genes apart.
GeneLists(weight) ==
  UNION {{genes \in [1..n -> {Gene(v, weight, e) :
                                v \in 1..MaxInnov, e \in BOOLEAN}] :
            InnovSorted(genes)} : n \in 0..MaxInnov}

\* getNodeCount() of a genome with these genes: the input node, the output
\* node and every hidden node a gene names.
NodeCount(genes) ==
  IF genes = <<>> THEN 2
  ELSE IF genes[Len(genes)].target < 2 THEN 2
  ELSE genes[Len(genes)].target + 1

\* Crossover reads of the two fitnesses only which is greater and whether
\* they are equal.
Genomes(weight) ==
  {[fit |-> f, nodeCount |-> NodeCount(genes), connectionGeneList |-> genes] :
     f \in 0..1, genes \in GeneLists(weight)}

\* disableProb lies strictly between 0 and 1, so that randu() < disableProb
\* has both outcomes.
DisableProbs == {"between"}

CrossInit ==
  /\ IdleTrain
  /\ IdleSelect
  /\ IdleWrap
  /\ xoPc = "entry"
  /\ isAcyclic \in BOOLEAN
  /\ disableProb \in DisableProbs
  /\ gen1 \in Genomes(1)
  /\ gen2 \in Genomes(2)
  /\ base = 0
  /\ newConnGeneList = <<>>
  /\ nextNodeID = 0
  /\ xi = 0
  /\ xj = 0
  /\ xk = 0
  /\ child = NoGenome

\* std::abs(gen1.Fitness() - gen2.Fitness()) < 0.001, line 229, for whole
\* fitnesses.
equalFitness == gen1.fit = gen2.fit

Parent(b) == IF b = 1 THEN gen1 ELSE gen2
lessFitGenome == Parent(3 - base)

\* Lines 237-267: the parents the child can be based on.
BaseChoices ==
  IF equalFitness THEN {1, 2}
  ELSE IF gen1.fit > gen2.fit THEN {1} ELSE {2}

\* A slip: the node count of the parent the child is not based on.
OtherNextNodeID(b) == Parent(3 - b).nodeCount

\* nextNodeID of the fitter-parent branch, lines 242, 249, 257, 264.
BaseNextNodeID(b) == Parent(b).nodeCount

\* Lines 228-267 and 315-321.
CrossEntry ==
  /\ xoPc = "entry"
  /\ IF ~equalFitness \/ isAcyclic
     THEN /\ base' \in BaseChoices
          /\ newConnGeneList' = Parent(base').connectionGeneList
          /\ nextNodeID' = BaseNextNodeID(base')
          /\ xoPc' = "match"
     ELSE /\ xoPc' = "merge"
          /\ UNCHANGED <<base, newConnGeneList, nextNodeID>>
  /\ xi' = 0
  /\ xj' = 0
  /\ xk' = 0
  /\ UNCHANGED <<crossArgs, child>>
  /\ UNCHANGED notCross

\* The genome the Genome constructor builds from a gene list and nextNodeID
\* (the constructor is not part of the sources).  The child has no fitness
\* before it is evaluated; fit = -1 says so.
NewGenome(genes, nodes) ==
  [fit |-> -1, nodeCount |-> nodes, connectionGeneList |-> genes]

\* A slip: the search stops at the first gene it looks at, whatever its
\* innovation ID.
FindFirst(j, v) ==
  IF j >= Len(newConnGeneList) THEN Len(newConnGeneList) ELSE j

\* The first j >= k with newConnGeneList[j].InnovationID() = v, lines
\* 275-277; Len(newConnGeneList) when there is none.
RECURSIVE FindFrom(_, _)
FindFrom(j, v) ==
  IF j >= Len(newConnGeneList) THEN Len(newConnGeneList)
  ELSE IF newConnGeneList[j + 1].innov = v THEN j
       ELSE FindFrom(j + 1, v)

\* The values lines 280-287 can leave in Enabled() of a matching gene:
\* randu() < disableProb can be true unless disableProb is 0 (or less) and
\* false unless it is 1 (or more).
EnabledChoices(mine, theirs) ==
  IF ~mine \/ ~theirs
  THEN {e \in BOOLEAN : IF e THEN disableProb # "one"
                                ELSE disableProb # "zero"}
  ELSE {mine}

\* One iteration of the loop of lines 271-296, or lines 298-311.
CrossMatch ==
  /\ xoPc = "match"
  /\ IF xi < Len(lessFitGenome.connectionGeneList)
     THEN LET other == lessFitGenome.connectionGeneList[xi + 1]
              j == FindFrom(xk, other.innov)
          IN  /\ IF j < Len(newConnGeneList)
                 THEN /\ \E e \in EnabledChoices(newConnGeneList[j + 1].enabled,
                                                 other.enabled),
                            w \in {newConnGeneList[j + 1].weight,
                                   other.weight} :
                           newConnGeneList' =
                             [newConnGeneList EXCEPT
                                ![j + 1].enabled = e, ![j + 1].weight = w]
                      /\ xk' = j
                 ELSE UNCHANGED <<newConnGeneList, xk>>
              /\ xi' = xi + 1
              /\ UNCHANGED <<xoPc, child>>
     ELSE /\ child' = NewGenome(newConnGeneList, nextNodeID)
          /\ xoPc' = "returned"
          /\ UNCHANGED <<newConnGeneList, xi, xk>>
  /\ UNCHANGED <<crossArgs, base, nextNodeID, xj>>
  /\ UNCHANGED notCross

\* Lines 316-321.
gen1size == Len(gen1.connectionGeneList)
gen2size == Len(gen2.connectionGeneList)
maxSize == IF gen1size > gen2size THEN gen1size ELSE gen2size
minSize == IF gen1size < gen2size THEN gen1size ELSE gen2size
maxGenome == IF gen1size > gen2size THEN gen1 ELSE gen2
minGenome == IF gen1size < gen2size THEN gen1 ELSE gen2

\* What maxGenome.connectionGeneList[xi] can yield: the gene, or, past the
\* end of the vector, whatever the memory holds.
GarbageGenes ==
  {[innov |-> v, source |-> 0, target |-> 0, weight |-> 0, enabled |-> e] :
     v \in 0..(MaxInnov + 1), e \in BOOLEAN}

ReadMax ==
  IF xi < maxSize THEN {maxGenome.connectionGeneList[xi + 1]}
  ELSE GarbageGenes

\* nextNodeID of the tie branch, line 352.
TieNextNodeID ==
  IF gen1.nodeCount > gen2.nodeCount THEN gen1.nodeCount ELSE gen2.nodeCount

\* One iteration of the loop of lines 322-345 (a draw that adds nothing and
\* moves no index leaves the state as it is), or of the loop of lines
\* 346-350, or lines 352-357.
CrossMerge ==
  /\ xoPc = "merge"
  /\ \/ \* maxGenome.connectionGeneList[i] past the end: the read faults.
        /\ xj < minSize
        /\ xi >= maxSize
        /\ xoPc' = "crashed"
        /\ UNCHANGED <<newConnGeneList, nextNodeID, xi, xj, child>>
     \/ /\ xj < minSize
        /\ xi < maxSize + MaxOOB
        /\ \E g1 \in ReadMax :
             LET g2 == minGenome.connectionGeneList[xj + 1]
             IN  IF g2.innov < g1.innov
                 THEN /\ newConnGeneList' = Append(newConnGeneList, g2)
                      /\ xj' = xj + 1
                      /\ UNCHANGED xi
                 ELSE IF g2.innov = g1.innov
                 THEN /\ \E g \in {g1, g2} :
                           newConnGeneList' = Append(newConnGeneList, g)
                      /\ xi' = xi + 1
                      /\ xj' = xj + 1
                 ELSE /\ newConnGeneList' = Append(newConnGeneList, g1)
                      /\ xi' = xi + 1
                      /\ UNCHANGED xj
        /\ UNCHANGED <<xoPc, nextNodeID, child>>
     \/ /\ xj >= minSize
        /\ xi < maxSize
        /\ newConnGeneList' =
             Append(newConnGeneList, maxGenome.connectionGeneList[xi + 1])
        /\ xi' = xi + 1
        /\ UNCHANGED <<xoPc, nextNodeID, xj, child>>
     \/ /\ xj >= minSize
        /\ xi >= maxSize
        /\ nextNodeID' = TieNextNodeID
        /\ child' = NewGenome(newConnGeneList, nextNodeID')
        /\ xoPc' = "returned"
        /\ UNCHANGED <<newConnGeneList, xi, xj>>
  /\ UNCHANGED <<crossArgs, base, xk>>
  /\ UNCHANGED notCross

CrossNext ==
  \/ CrossEntry
  \/ CrossMatch
  \/ CrossMerge

SpecCrossover == CrossInit /\ [][CrossNext]_vars

---------------------------------------------------------------------------
\* Acrobat::Wrap (SpecWrap).  Angles are whole numbers of a fixed unit.

MaxAngle == 9
MaxRange == 2

WrapInit ==
  /\ IdleTrain
  /\ IdleSelect
  /\ IdleCross
  /\ wrapPc = "call"
  /\ value \in (-MaxAngle)..MaxAngle
  /\ minimum \in (-MaxRange)..MaxRange
  /\ maximum \in (-MaxRange)..MaxRange
  /\ minimum < maximum

\* acrobat.hpp, lines 257-273.
Wrap(v, lo, hi) ==
  LET diff == hi - lo
  IN  IF v > hi THEN v - diff
      ELSE IF v < lo THEN v + diff
      ELSE v

WrapCall ==
  /\ wrapPc = "call"
  /\ value' = Wrap(value, minimum, maximum)
  /\ wrapPc' = "returned"
  /\ UNCHANGED <<minimum, maximum>>
  /\ UNCHANGED notWrap

WrapNext == WrapCall

SpecWrap == WrapInit /\ [][WrapNext]_vars

---------------------------------------------------------------------------
\* The claims about NEAT, checked under Spec.

InReproduce == pc \in {"reconcile", "deficit", "surplus", "elite", "species", "fill"}

FiniteSizes == \A s \in Species : ~IsNaN(speciesSize[s])

\* The reconciliation of lines 131-151 is over: its loops have ended, or the
\* run has died inside them.
ReconcileOver ==
  \/ pc = "elite"
  \/ pc = "crashed" /\ fault = "Reproduce: speciesSize[i] out of bounds"

\* C1: once the rounding-drift reconciliation has run on rounded allotments
\* (numbers that sum to less or to more than popSize), the allotted species
\* sizes sum to exactly popSize.
C1_AllotmentConservation ==
  (ReconcileOver /\ FiniteSizes) => SumN(speciesSize, numSpecies) = popSize

\* C2: when Reproduce has built the new population (its species loop has
\* ended) from allotted sizes that are numbers, the population holds exactly
\* popSize genomes.
C2_PopulationSize ==
  (pc = "species" /\ i = numSpecies /\ FiniteSizes) =>
     Len(genomeList) = popSize

\* C6: when Train finishes with popSize >= 1, the genome it returns is a
\* genome of the final population, no genome of that population has a
\* greater fitness, and every genome before it has a smaller one.
C6_ReturnsBest ==
  (pc = "done" /\ popSize >= 1) =>
     /\ maxIdx \in 0..(Len(genomeList) - 1)
     /\ \A k \in 1..Len(genomeList) : genomeList[k] <= genomeList[maxIdx + 1]
     /\ \A k \in 1..maxIdx : genomeList[k] < genomeList[maxIdx + 1]

ConfigError ==
  \/ inputNodeCount = 0
  \/ outputNodeCount = 0
  \/ popSize = 0
  \/ numSpecies > popSize

\* C7: a configuration with zero input or output nodes, zero population
\* size or more species than genomes never gets past the constructor: the
\* object is not yet built, or the constructor has rejected it.
C7_FailFast ==
  ConfigError => pc \in {"new", "rejected"}

\* C8: in Reproduce, under a valid configuration, a species without members
\* has the mean fitness 0, and that mean was not computed by a division by
\* zero.
C8_EmptySpeciesMeanZero ==
  (InReproduce /\ ~ConfigError) =>
    \A s \in Species :
      speciesList[s] = <<>> =>
        meanFitnesses[s].n = 0 /\ meanFitnesses[s].d # 0

RECURSIVE Insert(_, _)
Insert(f, sorted) ==
  IF sorted = <<>> THEN <<f>>
  ELSE IF f >= sorted[1] THEN <<f>> \o sorted
       ELSE <<sorted[1]>> \o Insert(f, Tail(sorted))

RECURSIVE Descending(_)
\* The fitnesses fs in descending order.
Descending(fs) ==
  IF fs = <<>> THEN <<>> ELSE Insert(fs[1], Descending(Tail(fs)))

\* C10: the elites Reproduce has copied for species i (it is about to fill
\* the rest of the quota) are the numElite[i] fittest members of the
\* species, fittest first.
C10_ElitesAreFittest ==
  (pc = "fill" /\ EliteCopies(numElite[i]) <= Len(speciesList[i])) =>
     LET k == EliteCopies(numElite[i])
     IN  Len(genomeList) >= currentSize + k =>
           SubSeq(genomeList, currentSize + 1, currentSize + k)
             = SubSeq(Descending(FitsOf(speciesList[i])), 1, k)

---------------------------------------------------------------------------
\* The claims about RankSelection::Select, checked under SpecSelect and
\* SpecSelectFair.

\* C3: when Select has returned for N >= 2 fitnesses, the two indices it
\* wrote differ and lie in [0, N).
C3_SelectDistinct ==
  (selPc = "returned" /\ n_elem >= 2) =>
     /\ sel[0] # sel[1]
     /\ sel[0] \in 0..(n_elem - 1)
     /\ sel[1] \in 0..(n_elem - 1)

\* C4: with fair random draws, Select returns on every fitness vector of
\* length N >= 2.
C4_SelectTerminates ==
  (n_elem >= 2) ~> (selPc = "returned")

---------------------------------------------------------------------------
\* The claims about NEAT::Crossover, checked under SpecCrossover.

Larger(a, b) == IF a > b THEN a ELSE b

\* C5 as claimed: in both branches the child has at least as many nodes as
\* the parent with more nodes.
C5_ChildNodeCountMax ==
  xoPc = "returned" =>
     child.nodeCount >= Larger(gen1.nodeCount, gen2.nodeCount)

\* C5 as amended: in the tie branch the child has at least as many nodes as
\* the parent with more nodes; in the fitter-parent branch it has at least
\* as many nodes as the parent it is based on.
C5_ChildNodeCount ==
  xoPc = "returned" =>
     IF base = 0
     THEN child.nodeCount >= Larger(gen1.nodeCount, gen2.nodeCount)
     ELSE child.nodeCount >= Parent(base).nodeCount

\* Crossover has returned from the fitter-parent branch, and the other
\* parent has more nodes than the child.
C5_Witness ==
  /\ xoPc = "returned"
  /\ base # 0
  /\ lessFitGenome.nodeCount > child.nodeCount

---------------------------------------------------------------------------
\* The claim about Acrobat::Wrap, checked under SpecWrap.

\* C9: the value Wrap returns lies between minimum and maximum.
C9_WrapInRange ==
  wrapPc = "returned" => (minimum <= value /\ value <= maximum)

---------------------------------------------------------------------------
\* Further claims about NEAT::Reproduce, checked under Spec.

\* C11: when Reproduce has read the members' fitnesses for the species
\* means, every member's fitness is the one Evaluate stored, in this
\* generation, for the genome of the population it was copied from.
C11_FitnessIsCurrent ==
  pc = "reconcile" =>
     \A s \in Species :
       \A k \in 1..Len(speciesList[s]) :
         speciesList[s][k].idx < Len(genomeList) =>
           speciesList[s][k].fit = genomeList[speciesList[s][k].idx + 1]

\* C12: the parents of a child Reproduce has made are the members at the two
\* indices Select returned, and both indices are below the member count.
C12_ParentsAreSelected ==
  (pc = "fill" /\ parents # <<>>) =>
     /\ parents = selection
     /\ parents[1] < Len(speciesList[i])
     /\ parents[2] < Len(speciesList[i])

---------------------------------------------------------------------------
\* Further claims about NEAT::Crossover, checked under SpecCrossover.

\* The genes the tie branch's first loop is looking at.
AtMax == maxGenome.connectionGeneList[xi + 1]
AtMin == minGenome.connectionGeneList[xj + 1]

\* C13: when the tie branch's merge looks at a gene that only one parent
\* has, both outcomes of its draw are possible: the gene is put into the
\* child, or the merge moves past it and the child is left as it is.
C13_UniqueGeneDrawn ==
  (xoPc = "merge" /\ xj < minSize /\ xi < maxSize
     /\ AtMax.innov # AtMin.innov) =>
     /\ ENABLED (CrossMerge /\ Len(newConnGeneList') = Len(newConnGeneList) + 1)
     /\ ENABLED (CrossMerge /\ newConnGeneList' = newConnGeneList
                   /\ (xi' # xi \/ xj' # xj))

InnovIDs(genes) == {genes[n].innov : n \in 1..Len(genes)}

baseGenes == Parent(base).connectionGeneList

\* C14: when the fitter-parent branch has returned, the child's gene list
\* has the length of the base parent's list and, gene by gene, its
\* innovation ID, source and target; a gene whose innovation ID the less-fit
\* parent does not have also has the base parent's weight and enabled flag.
C14_BaseStructureKept ==
  (xoPc = "returned" /\ base # 0) =>
     /\ Len(child.connectionGeneList) = Len(baseGenes)
     /\ \A n \in 1..Len(baseGenes) :
          /\ child.connectionGeneList[n].innov = baseGenes[n].innov
          /\ child.connectionGeneList[n].source = baseGenes[n].source
          /\ child.connectionGeneList[n].target = baseGenes[n].target
          /\ baseGenes[n].innov \notin InnovIDs(lessFitGenome.connectionGeneList)
               => child.connectionGeneList[n] = baseGenes[n]

\* The fitter-parent branch has returned a child that has a gene only the
\* base parent has, after a gene both parents have whose weight it took from
\* the less-fit parent.
C14_Witness ==
  /\ xoPc = "returned"
  /\ base # 0
  /\ \E n \in 1..Len(baseGenes), m \in 1..Len(baseGenes) :
       /\ m < n
       /\ baseGenes[n].innov \notin InnovIDs(lessFitGenome.connectionGeneList)
       /\ baseGenes[m].innov \in InnovIDs(lessFitGenome.connectionGeneList)
       /\ child.connectionGeneList[m].weight # baseGenes[m].weight

\* C15: whenever the tie branch's first loop is about to read
\* maxGenome.connectionGeneList[i] and minGenome.connectionGeneList[j], both
\* indices are below the lengths of these lists.
C15_MergeReadsInBounds ==
  (xoPc = "merge" /\ xj < minSize) => xi < maxSize

=============================================================================
